---- MODULE Spec2Model ----
(***************************************************************************)
(* Lifecycle of HelloTriangleApplication (src/src/lib.rs, src/src/main.rs, *)
(* src/src/debug.rs): startup in new(), the event loop in run(), teardown  *)
(* in Drop.  Native Vulkan handles (ash::Instance, ash::Device, the debug  *)
(* messenger) are plain values without a destructor: a handle is destroyed *)
(* only by an explicit destroy call.                                       *)
(***************************************************************************)
EXTENDS Integers, Sequences, FiniteSets, TLC

\* ---------------------------------------------------------------- bounds
MaxWindowExts == 2
MaxDevices == 2
MaxFamilies == 2
MaxEvents == 3
MaxQueueFamilies == 6
MaxCalls == 2

\* ------------------------------------------------------------- constants
DebugUtilsName == "VK_EXT_debug_utils"
VALIDATION_LAYERS == <<"VK_LAYER_KHRONOS_validation">>
WindowExtensionNames == {"VK_KHR_surface", "VK_KHR_xlib_surface"}
AnyExtensionNames == WindowExtensionNames \cup {DebugUtilsName}
DeviceTypes == {"DISCRETE_GPU", "INTEGRATED_GPU"}
QueueFlagSets == {{"COMPUTE"}, {"GRAPHICS", "COMPUTE"}}
Events == {"CloseRequested", "Resized"}
Variants == {"lib", "main"}
Severities == {"VERBOSE", "INFO", "WARNING", "ERROR"}
MessageTexts == {"validation", "loader"}
PanicOutcomes == {"abort", "unwind_into_foreign_caller"}

SeqUpTo(S, n) == UNION {[1..k -> S] : k \in 0..n}

QueueFamilyLists == SeqUpTo(QueueFlagSets, MaxFamilies)
PhysicalDeviceRecords == [device_type : DeviceTypes, queue_families : QueueFamilyLists]
DeviceLists == SeqUpTo(PhysicalDeviceRecords, MaxDevices)
WindowExtLists == SeqUpTo(WindowExtensionNames, MaxWindowExts)
AnyExtLists == SeqUpTo(AnyExtensionNames, MaxWindowExts)
LongQueueFamilyLists == SeqUpTo(QueueFlagSets, MaxQueueFamilies)
LongDeviceRecords == [device_type : DeviceTypes, queue_families : LongQueueFamilyLists]
\* p_message: the bytes of a C string, which may or may not be valid UTF-8
CallbackMessages == [bytes : MessageTexts, utf8 : BOOLEAN]

VARIABLES
  variant,                          \* which crate root runs: lib.rs or main.rs
  SHOULD_INCLUDE_VALIDATION_LAYERS, \* cfg!(debug_assertions), fixed per build
  pc,                               \* position in main / new / run / drop
  result,                           \* what new() produced
  window_required,                  \* Option: enumerate_required_extensions
  instance_create_info,             \* Option: descriptor given to create_instance
  debugger,                         \* Option<VulkanDebugger>
  physical_devices,                 \* Option: enumerate_physical_devices
  examined,                         \* predicate results per candidate visited
  physical_device,                  \* Option: position of the chosen device
  device_create_info,               \* Option: descriptor given to create_device
  queue,                            \* Option: (family, slot) of get_device_queue
  handles,                          \* native handle -> "none"|"live"|"destroyed"
  createLog,                        \* native create calls that succeeded
  destroyLog,                       \* native destroy calls issued
  drop_calls,                       \* destroy calls Drop still has to issue
  control_flow,                     \* winit ControlFlow of the running loop
  pending,                          \* window events not yet dispatched
  posted,                           \* number of events the window produced
  handled,                          \* number of callback invocations
  exits,                            \* number of times the callback chose Exit
  calls,                            \* invocations of the diagnostic callback
  log                               \* records received by the log sink

vars == <<variant, SHOULD_INCLUDE_VALIDATION_LAYERS, pc, result, window_required,
          instance_create_info, debugger, physical_devices, examined,
          physical_device, device_create_info, queue, handles, createLog,
          destroyLog, drop_calls, control_flow, pending, posted, handled, exits,
          calls, log>>

config == <<variant, SHOULD_INCLUDE_VALIDATION_LAYERS>>
startup == <<window_required, instance_create_info, debugger, physical_devices,
             examined, physical_device, device_create_info, queue>>
loop == <<control_flow, pending, posted, handled, exits>>
sink == <<calls, log>>

HandleNames == {"instance", "debugger", "device"}

\* -------------------------------------------------------- pure functions

\* mutant: the diagnostic extension is pushed whatever the build flag says
add_necessary_extensions_unconditional(flag, extension_list) ==
  Append(extension_list, DebugUtilsName)

\* mutant: the diagnostic extension is put in front of the required ones
add_necessary_extensions_prepend(flag, extension_list) ==
  IF flag THEN <<DebugUtilsName>> \o extension_list ELSE extension_list

\* debug.rs add_necessary_extensions: push the diagnostic extension name
add_necessary_extensions(flag, extension_list) ==
  IF flag THEN Append(extension_list, DebugUtilsName) ELSE extension_list

\* mutant: the build flag is read inverted
add_necessary_layers_inverted(flag, layer_list) ==
  IF ~flag THEN layer_list \o VALIDATION_LAYERS ELSE layer_list

\* debug.rs add_necessary_layers: extend with VALIDATION_LAYERS
add_necessary_layers(flag, layer_list) ==
  IF flag THEN layer_list \o VALIDATION_LAYERS ELSE layer_list

\* mutant: the descriptor is produced whatever the build flag says
get_debug_messenger_info_always(flag) == <<"DebugUtilsMessengerCreateInfoEXT">>

\* debug.rs get_debug_messenger_info: Some(descriptor) iff the flag is set
get_debug_messenger_info(flag) ==
  IF flag THEN <<"DebugUtilsMessengerCreateInfoEXT">> ELSE <<>>

\* lib.rs init_vulkan: the InstanceCreateInfo built from the window's list
build_instance_create_info(flag, required) ==
  [enabled_extension_names |-> add_necessary_extensions(flag, required),
   enabled_layer_names |-> add_necessary_layers(flag, <<>>),
   p_next |-> get_debug_messenger_info(flag)]

RECURSIVE FindFrom(_, _)
FindFrom(queue_families, i) ==
  IF i > Len(queue_families) THEN <<>>
  ELSE IF "GRAPHICS" \in queue_families[i] THEN <<i - 1>>
  ELSE FindFrom(queue_families, i + 1)

\* mutant: the position is reported one-based
find_queue_families_one_based(device) ==
  LET r == FindFrom(device.queue_families, 1)
  IN IF r = <<>> THEN r ELSE <<r[1] + 1>>

\* lib.rs find_queue_families: first (0-based) index with the GRAPHICS flag
find_queue_families(device) == FindFrom(device.queue_families, 1)

\* mutant: every device type is accepted
is_physical_device_suitable_any_type(device) == TRUE

\* lib.rs is_physical_device_suitable
is_physical_device_suitable(device) == device.device_type = "DISCRETE_GPU"

\* mutant: the closure forgets the queue-family check
pick_closure_type_only(device) == is_physical_device_suitable(device)

\* the closure passed to find() in pick_physical_device
pick_closure(device) ==
  is_physical_device_suitable(device) /\ find_queue_families(device) # <<>>

RECURSIVE PickFrom(_, _)
PickFrom(devs, i) ==
  IF i > Len(devs) THEN <<>>
  ELSE IF pick_closure(devs[i]) THEN <<i>>
  ELSE PickFrom(devs, i + 1)

\* mutant: the first enumerated device is taken unchecked
pick_physical_device_first(devs) == IF devs = <<>> THEN <<>> ELSE <<1>>

\* lib.rs pick_physical_device: Iterator::find over the enumeration
pick_physical_device(devs) == PickFrom(devs, 1)

\* what the find() visited: every candidate up to and including the match
examine(devs) ==
  LET p == pick_physical_device(devs)
      last == IF p = <<>> THEN Len(devs) ELSE p[1]
  IN [i \in 1..last |->
        [suitable |-> is_physical_device_suitable(devs[i]),
         queue_family |-> find_queue_families(devs[i]),
         selected |-> pick_closure(devs[i])]]

\* mutant: the queue is always requested from family 0
build_device_create_info_family_zero(flag, index) ==
  [queue_create_infos |-> <<[queue_family_index |-> 0, queue_count |-> 1]>>,
   enabled_layer_names |-> add_necessary_layers(flag, <<>>),
   enabled_extension_names |-> <<>>]

\* lib.rs create_logical_device: the DeviceCreateInfo for a family index
build_device_create_info(flag, index) ==
  [queue_create_infos |-> <<[queue_family_index |-> index, queue_count |-> 1]>>,
   enabled_layer_names |-> add_necessary_layers(flag, <<>>),
   enabled_extension_names |-> <<>>]

\* mutant: the instance is destroyed before the device
drop_instance_before_device(dbg) ==
  (IF dbg # <<>> THEN <<"debugger">> ELSE <<>>) \o <<"instance", "device">>

\* mutant: the instance is destroyed first
drop_instance_first(dbg) ==
  <<"instance">> \o (IF dbg # <<>> THEN <<"debugger">> ELSE <<>>) \o <<"device">>

\* mutant: destroy calls in the exact reverse of the creation order
drop_reverse_of_creation(dbg) ==
  <<"device">> \o (IF dbg # <<>> THEN <<"debugger">> ELSE <<>>) \o <<"instance">>

\* Drop for HelloTriangleApplication: the destroy calls, in call order
drop(dbg) ==
  (IF dbg # <<>> THEN <<"debugger">> ELSE <<>>) \o <<"device", "instance">>

\* mutant: the closure never leaves the loop
callback_never_exits(event) == "Wait"

\* mutant: the closure leaves the loop on any event
callback_exit_on_any(event) == "Exit"

\* the closure given to run_return: Wait, then Exit on CloseRequested
callback(event) == IF event = "CloseRequested" THEN "Exit" ELSE "Wait"

\* CStr::to_str: Ok(text) for valid UTF-8, Err otherwise
to_str(message) == IF message.utf8 THEN <<message.bytes>> ELSE <<>>

\* debug.rs vulkan_debug_callback: the branch taken, most severe bit first
log_level(message_severity) ==
  IF "ERROR" \in message_severity THEN <<"error">>
  ELSE IF "WARNING" \in message_severity THEN <<"warn">>
  ELSE IF "INFO" \in message_severity THEN <<"info">>
  ELSE IF "VERBOSE" \in message_severity THEN <<"debug">>
  ELSE <<>>

\* debug.rs vulkan_debug_callback: log!("{}", message.to_str().unwrap()) in
\* the branch taken, then vk::FALSE
vulkan_debug_callback(message_severity, message) ==
  LET level == log_level(message_severity)
      text == to_str(message)
  IN IF level = <<>> THEN [logged |-> <<>>, outcome |-> "FALSE"]
     ELSE IF text = <<>> THEN [logged |-> <<>>, outcome |-> "panic"]
     ELSE [logged |-> <<[level |-> level[1], text |-> text[1]]>>,
           outcome |-> "FALSE"]

\* ------------------------------------------------------------------ Init
InitRest ==
  /\ variant \in Variants
  /\ SHOULD_INCLUDE_VALIDATION_LAYERS \in BOOLEAN
  /\ result = "pending"
  /\ instance_create_info = <<>>
  /\ debugger = <<>>
  /\ physical_devices = <<>>
  /\ examined = <<>>
  /\ physical_device = <<>>
  /\ device_create_info = <<>>
  /\ queue = <<>>
  /\ handles = [h \in HandleNames |-> "none"]
  /\ createLog = <<>>
  /\ destroyLog = <<>>
  /\ drop_calls = <<>>
  /\ control_flow = "Poll"
  /\ pending = <<>>
  /\ posted = 0
  /\ handled = 0
  /\ exits = 0
  /\ calls = <<>>
  /\ log = <<>>

Init ==
  /\ pc = "init_window"
  /\ window_required = <<>>
  /\ InitRest

\* a native create call that succeeded
Created(h) ==
  /\ handles' = [handles EXCEPT ![h] = "live"]
  /\ createLog' = Append(createLog, h)

\* mutant: the error is noted but startup goes on with the next step
ReturnErr_ignored(e) ==
  /\ pc' = CASE pc = "init_window" -> "init_vulkan"
             [] pc = "init_vulkan" -> "debugger_new"
             [] pc = "debugger_new" -> "pick_physical_device"
             [] pc = "pick_physical_device" -> "failed"
             [] OTHER -> "get_device_queue"
  /\ result' = e

\* new() returns Err(e): the locals go out of scope, no destroy call is made
ReturnErr(e) ==
  /\ pc' = "failed"
  /\ result' = e

\* a panic inside new(): unwinding drops the locals, no destroy call is made
Panic(e) ==
  /\ pc' = "panicked"
  /\ result' = e

\* --------------------------------------------------------------- new()

\* new(): init_window()?  (window construction is the collaborator's)
InitWindow ==
  /\ pc = "init_window"
  /\ \/ /\ pc' = "init_vulkan"
        /\ UNCHANGED result
     \/ ReturnErr("Err(init_window)")
  /\ UNCHANGED <<config, sink, startup, handles, createLog, destroyLog, drop_calls, loop>>

\* new(): init_vulkan(&entry, &window)?
InitVulkan ==
  /\ pc = "init_vulkan"
  /\ \/ \* enumerate_required_extensions(&window).unwrap() panics
        /\ Panic("panic(enumerate_required_extensions)")
        /\ UNCHANGED <<window_required, instance_create_info, handles, createLog>>
     \/ \E required \in WindowExtLists, created \in BOOLEAN :
          /\ window_required' = <<required>>
          /\ instance_create_info' =
               <<build_instance_create_info(SHOULD_INCLUDE_VALIDATION_LAYERS, required)>>
          /\ IF created
               THEN /\ Created("instance")
                    /\ pc' = "debugger_new"
                    /\ UNCHANGED result
               ELSE /\ ReturnErr("Err(create_instance)")
                    /\ UNCHANGED <<handles, createLog>>
  /\ UNCHANGED <<config, sink, debugger, physical_devices, examined, physical_device,
                 device_create_info, queue, destroyLog, drop_calls, loop>>

\* new(): VulkanDebugger::new (lib.rs) / init_debug_messenger (main.rs)
DebuggerNew ==
  /\ pc = "debugger_new"
  /\ IF ~SHOULD_INCLUDE_VALIDATION_LAYERS
       THEN /\ pc' = "pick_physical_device"
            /\ UNCHANGED <<result, debugger, handles, createLog>>
       ELSE \E created \in BOOLEAN :
              IF created
                THEN /\ debugger' = <<"debug_utils_messenger">>
                     /\ Created("debugger")
                     /\ pc' = "pick_physical_device"
                     /\ UNCHANGED result
                ELSE /\ IF variant = "lib"
                          THEN ReturnErr("Err(create_debug_utils_messenger)")
                          ELSE Panic("panic(create_debug_utils_messenger)")
                     /\ UNCHANGED <<debugger, handles, createLog>>
  \* init_vulkan has returned: its required list and descriptor are gone
  /\ window_required' = <<>>
  /\ instance_create_info' = <<>>
  /\ UNCHANGED <<config, sink, physical_devices, examined, physical_device,
                 device_create_info, queue, destroyLog, drop_calls, loop>>

\* new(): pick_physical_device(&instance).ok_or("Unable to find ...")?
PickPhysicalDevice ==
  /\ pc = "pick_physical_device"
  /\ \/ \* enumerate_physical_devices().unwrap() panics
        /\ Panic("panic(enumerate_physical_devices)")
        /\ UNCHANGED <<physical_devices, examined, physical_device>>
     \/ \E devs \in DeviceLists :
          /\ physical_devices' = <<devs>>
          /\ examined' = examine(devs)
          /\ physical_device' = pick_physical_device(devs)
          /\ IF pick_physical_device(devs) = <<>>
               THEN ReturnErr("Unable to find suitable physical device")
               ELSE /\ pc' = "create_logical_device"
                    /\ UNCHANGED result
  /\ UNCHANGED <<config, sink, window_required, instance_create_info, debugger,
                 device_create_info, queue, handles, createLog, destroyLog,
                 drop_calls, loop>>

\* new(): create_logical_device(&instance, physical_device)?
CreateLogicalDevice ==
  /\ pc = "create_logical_device"
  /\ LET qf == find_queue_families(physical_devices[1][physical_device[1]])
     IN IF qf = <<>>
          THEN /\ Panic("panic(find_queue_families)")
               /\ UNCHANGED <<device_create_info, handles, createLog>>
          ELSE \E created \in BOOLEAN :
                 /\ device_create_info' =
                      <<build_device_create_info(SHOULD_INCLUDE_VALIDATION_LAYERS, qf[1])>>
                 /\ IF created
                      THEN /\ Created("device")
                           /\ pc' = "get_device_queue"
                           /\ UNCHANGED result
                      ELSE /\ ReturnErr("Err(create_device)")
                           /\ UNCHANGED <<handles, createLog>>
  /\ UNCHANGED <<config, sink, window_required, instance_create_info, debugger,
                 physical_devices, examined, physical_device, queue,
                 destroyLog, drop_calls, loop>>

\* new(): find_queue_families(..).unwrap(); get_device_queue(index, 0); Ok(Self)
GetDeviceQueue ==
  /\ pc = "get_device_queue"
  /\ LET qf == find_queue_families(physical_devices[1][physical_device[1]])
     IN IF qf = <<>>
          THEN /\ Panic("panic(find_queue_families)")
               /\ UNCHANGED queue
               /\ UNCHANGED <<window_required, instance_create_info, physical_devices,
                              examined, physical_device, device_create_info>>
          ELSE /\ queue' = <<[family |-> qf[1], slot |-> 0]>>
               /\ pc' = "constructed"
               /\ result' = "Ok"
               \* Ok(Self { .. }): the struct keeps instance, debugger, device and
               \* queue; the other locals of new() and its callees are gone
               /\ window_required' = <<>>
               /\ instance_create_info' = <<>>
               /\ physical_devices' = <<>>
               /\ examined' = <<>>
               /\ physical_device' = <<>>
               /\ device_create_info' = <<>>
  /\ UNCHANGED <<config, sink, debugger, handles, createLog, destroyLog, drop_calls, loop>>

\* --------------------------------------------------------------- run()

\* main: triangle_app.run() enters event_loop.run_return
RunStart ==
  /\ pc = "constructed"
  /\ pc' = "run"
  /\ UNCHANGED <<config, sink, result, startup, handles, createLog, destroyLog,
                 drop_calls, loop>>

\* the window collaborator produces an event
Post ==
  /\ pc \in {"run", "run_returned"}
  /\ posted < MaxEvents
  /\ \E e \in Events : pending' = Append(pending, e)
  /\ posted' = posted + 1
  /\ UNCHANGED <<config, sink, pc, result, startup, handles, createLog, destroyLog,
                 drop_calls, control_flow, handled, exits>>

\* run_return hands the next event to the closure while the flow is not Exit
Dispatch ==
  /\ pc = "run"
  /\ control_flow # "Exit"
  /\ pending # <<>>
  /\ control_flow' = callback(Head(pending))
  /\ pending' = Tail(pending)
  /\ handled' = handled + 1
  /\ exits' = IF callback(Head(pending)) = "Exit" THEN exits + 1 ELSE exits
  /\ UNCHANGED <<config, sink, pc, result, startup, handles, createLog, destroyLog,
                 drop_calls, posted>>

\* mutant: run_return comes back although the closure never chose Exit
RunReturn_early ==
  /\ pc = "run"
  /\ pc' = "run_returned"
  /\ UNCHANGED <<config, sink, result, startup, handles, createLog, destroyLog,
                 drop_calls, loop>>

\* run_return returns once the closure chose ControlFlow::Exit
RunReturn ==
  /\ pc = "run"
  /\ control_flow = "Exit"
  /\ pc' = "run_returned"
  /\ UNCHANGED <<config, sink, result, startup, handles, createLog, destroyLog,
                 drop_calls, loop>>

\* --------------------------------------------------------------- Drop

\* end of main: triangle_app goes out of scope, Drop::drop starts
DropBegin ==
  /\ pc = "run_returned"
  /\ pc' = "drop"
  /\ drop_calls' = drop(debugger)
  /\ UNCHANGED <<config, sink, result, startup, handles, createLog, destroyLog, loop>>

\* the next destroy call of Drop::drop
Destroy ==
  /\ pc = "drop"
  /\ drop_calls # <<>>
  /\ handles' = [handles EXCEPT ![Head(drop_calls)] = "destroyed"]
  /\ destroyLog' = Append(destroyLog, Head(drop_calls))
  /\ drop_calls' = Tail(drop_calls)
  /\ UNCHANGED <<config, sink, pc, result, startup, createLog, loop>>

\* Drop::drop returns: the application object is gone
DropEnd ==
  /\ pc = "drop"
  /\ drop_calls = <<>>
  /\ pc' = "gone"
  /\ UNCHANGED <<config, sink, result, startup, handles, createLog, destroyLog,
                 drop_calls, loop>>

Next ==
  \/ InitWindow
  \/ InitVulkan
  \/ DebuggerNew
  \/ PickPhysicalDevice
  \/ CreateLogicalDevice
  \/ GetDeviceQueue
  \/ RunStart
  \/ Post
  \/ Dispatch
  \/ RunReturn
  \/ DropBegin
  \/ Destroy
  \/ DropEnd

Spec == Init /\ [][Next]_vars

TypeOK ==
  /\ variant \in Variants
  /\ SHOULD_INCLUDE_VALIDATION_LAYERS \in BOOLEAN
  /\ handles \in [HandleNames -> {"none", "live", "destroyed"}]
  /\ Len(window_required) <= 1 /\ Len(instance_create_info) <= 1
  /\ Len(physical_devices) <= 1 /\ Len(physical_device) <= 1
  /\ Len(device_create_info) <= 1 /\ Len(queue) <= 1
  /\ control_flow \in {"Poll", "Wait", "Exit"}
  /\ posted \in 0..MaxEvents /\ handled \in 0..MaxEvents /\ exits \in 0..MaxEvents

\* --------------------------------------------- run() and Drop after new()

\* the states in which new() returns Ok(Self { .. })
InitRun ==
  /\ variant \in Variants
  /\ SHOULD_INCLUDE_VALIDATION_LAYERS \in BOOLEAN
  /\ pc = "constructed"
  /\ result = "Ok"
  /\ window_required = <<>>
  /\ instance_create_info = <<>>
  /\ debugger = IF SHOULD_INCLUDE_VALIDATION_LAYERS
                  THEN <<"debug_utils_messenger">> ELSE <<>>
  /\ physical_devices = <<>>
  /\ examined = <<>>
  /\ physical_device = <<>>
  /\ device_create_info = <<>>
  /\ queue \in {<<[family |-> f, slot |-> 0]>> : f \in 0..(MaxFamilies - 1)}
  /\ handles = [h \in HandleNames |->
                  IF h = "debugger" /\ ~SHOULD_INCLUDE_VALIDATION_LAYERS
                    THEN "none" ELSE "live"]
  /\ createLog = IF SHOULD_INCLUDE_VALIDATION_LAYERS
                   THEN <<"instance", "debugger", "device">>
                   ELSE <<"instance", "device">>
  /\ destroyLog = <<>>
  /\ drop_calls = <<>>
  /\ control_flow = "Poll"
  /\ pending = <<>>
  /\ posted = 0
  /\ handled = 0
  /\ exits = 0
  /\ calls = <<>>
  /\ log = <<>>

NextRun ==
  \/ RunStart
  \/ Post
  \/ Dispatch
  \/ RunReturn
  \/ DropBegin
  \/ Destroy
  \/ DropEnd

\* the program is single-threaded and every call returns: a step of main
\* that can be taken is taken; only the arrival of window events is not forced
Fairness ==
  /\ WF_vars(RunStart) /\ WF_vars(Dispatch) /\ WF_vars(RunReturn)
  /\ WF_vars(DropBegin) /\ WF_vars(Destroy) /\ WF_vars(DropEnd)

SpecRun == InitRun /\ [][NextRun]_vars /\ Fairness

\* new() of the lifecycle returns Ok only in the states SpecRun starts from
ConstructedIsInitRun == pc = "constructed" => InitRun

\* ------------------------------------------- capability negotiation alone

InitNegotiation ==
  /\ pc = "negotiate_instance"
  /\ window_required \in {<<required>> : required \in AnyExtLists}
  /\ InitRest

\* init_vulkan's list building applied to an arbitrary required list
NegotiateInstance ==
  /\ pc = "negotiate_instance"
  /\ instance_create_info' =
       <<build_instance_create_info(SHOULD_INCLUDE_VALIDATION_LAYERS, window_required[1])>>
  /\ pc' = "negotiate_device"
  /\ UNCHANGED <<config, sink, result, window_required, debugger, physical_devices,
                 examined, physical_device, device_create_info, queue, handles,
                 createLog, destroyLog, drop_calls, loop>>

\* create_logical_device's list building applied to some family index
NegotiateDevice ==
  /\ pc = "negotiate_device"
  /\ \E index \in 0..(MaxFamilies - 1) :
       device_create_info' =
         <<build_device_create_info(SHOULD_INCLUDE_VALIDATION_LAYERS, index)>>
  /\ pc' = "negotiated"
  /\ UNCHANGED <<config, sink, result, window_required, instance_create_info, debugger,
                 physical_devices, examined, physical_device, queue, handles,
                 createLog, destroyLog, drop_calls, loop>>

NextNegotiation ==
  \/ NegotiateInstance
  \/ NegotiateDevice

SpecNegotiation == InitNegotiation /\ [][NextNegotiation]_vars

\* ------------------------------------------------ queue-family scan alone

InitQueueFamilies ==
  /\ pc = "find_queue_families"
  /\ window_required = <<>>
  /\ InitRest

\* find_queue_families applied to one device with an arbitrary family list
FindQueueFamilies ==
  /\ pc = "find_queue_families"
  /\ \E device \in LongDeviceRecords :
       /\ physical_devices' = <<(<<device>>)>>
       /\ examined' = <<[suitable |-> is_physical_device_suitable(device),
                         queue_family |-> find_queue_families(device),
                         selected |-> pick_closure(device)]>>
  /\ pc' = "found"
  /\ UNCHANGED <<config, sink, result, window_required, instance_create_info,
                 debugger, physical_device, device_create_info, queue, handles,
                 createLog, destroyLog, drop_calls, loop>>

NextQueueFamilies == FindQueueFamilies

SpecQueueFamilies == InitQueueFamilies /\ [][NextQueueFamilies]_vars

\* ------------------------------------------------ diagnostic callback alone

InitCallback ==
  /\ pc = "callback"
  /\ window_required = <<>>
  /\ InitRest
  /\ variant = "lib"
  /\ SHOULD_INCLUDE_VALIDATION_LAYERS

\* the validation layer invokes vulkan_debug_callback; a panic leaves an
\* extern "system" function either by aborting or by unwinding into the caller
VulkanDebugCallback ==
  /\ pc = "callback"
  /\ Len(calls) < MaxCalls
  /\ \E message_severity \in SUBSET Severities, message \in CallbackMessages :
       LET r == vulkan_debug_callback(message_severity, message)
       IN /\ log' = log \o r.logged
          /\ \E o \in (IF r.outcome = "panic" THEN PanicOutcomes ELSE {r.outcome}) :
               /\ calls' = Append(calls, [message_severity |-> message_severity,
                                          message |-> message,
                                          logged |-> r.logged,
                                          outcome |-> o])
               /\ pc' = IF r.outcome = "panic" THEN "callback_panicked" ELSE pc
  /\ UNCHANGED <<config, result, startup, handles, createLog, destroyLog,
                 drop_calls, loop>>

NextCallback == VulkanDebugCallback

SpecCallback == InitCallback /\ [][NextCallback]_vars

\* ------------------------------------------------------------ properties

RECURSIVE Count(_, _)
Count(seq, x) ==
  IF seq = <<>> THEN 0
  ELSE (IF Head(seq) = x THEN 1 ELSE 0) + Count(Tail(seq), x)

IsPrefix(a, b) == Len(a) <= Len(b) /\ \A i \in 1..Len(a) : a[i] = b[i]

Occurs(seq, x) == \E i \in 1..Len(seq) : seq[i] = x

Before(seq, x, y) ==
  \E i, j \in 1..Len(seq) : i < j /\ seq[i] = x /\ seq[j] = y

Terminal == pc \in {"gone", "failed", "panicked"}

\* C1: after a successful startup the destroy calls are issued in the order
\* messenger (only if one was attached), logical device, instance; without a
\* messenger the order is logical device, instance and no messenger destroy
\* call is issued.
C1_TeardownOrder ==
  LET expected == IF Occurs(createLog, "debugger")
                    THEN <<"debugger", "device", "instance">>
                    ELSE <<"device", "instance">>
  IN result = "Ok" =>
       /\ IsPrefix(destroyLog, expected)
       /\ pc = "gone" => destroyLog = expected

C1_Witness ==
  /\ pc = "gone"
  /\ debugger # <<>>
  /\ destroyLog = <<"debugger", "device", "instance">>

\* C2: when new() fails after earlier steps succeeded, no handle created so
\* far is still live and the created handles were destroyed in reverse order
\* by the time the failure reaches the caller.
C2_FailedStartupReleases ==
  pc \in {"failed", "panicked"} =>
    /\ \A h \in HandleNames : handles[h] # "live"
    /\ \A a, b \in HandleNames :
         Before(createLog, a, b) => Before(destroyLog, b, a)

\* C3: whenever the messenger or the logical device is live the instance is
\* live; the instance is the first handle created and none of the other two
\* is live once the instance has been destroyed.
C3_InstanceOutlives ==
  /\ (handles["debugger"] = "live" \/ handles["device"] = "live")
       => handles["instance"] = "live"
  /\ createLog # <<>> => Head(createLog) = "instance"
  /\ Occurs(destroyLog, "instance") =>
       /\ destroyLog[Len(destroyLog)] = "instance"
       /\ \A h \in {"debugger", "device"} :
            Occurs(createLog, h) => Before(destroyLog, h, "instance")

C3_Witness ==
  /\ pc = "drop"
  /\ handles["debugger"] = "destroyed"
  /\ handles["device"] = "live"
  /\ handles["instance"] = "live"

\* C4: every handle is created at most once and destroyed at most once, and
\* at the end of a run every handle that was created has been destroyed
\* exactly once.
C4_CreatedOnceDestroyedOnce ==
  \A h \in HandleNames :
    /\ Count(createLog, h) <= 1
    /\ Count(destroyLog, h) <= 1
    /\ Terminal => Count(destroyLog, h) = Count(createLog, h)

\* C5 (as stated): shutdown destroys the handles in the exact reverse of the
\* order in which startup created them.
C5_ExactReverseOfCreation ==
  pc = "gone" =>
    \A a, b \in HandleNames :
      Before(createLog, a, b) => Before(destroyLog, b, a)

\* C5 (amended): shutdown destroys the instance, created first, after every
\* handle created later; the messenger and the logical device are destroyed
\* in their creation order, messenger first.
C5_ReverseExceptMessengerDevice ==
  pc = "gone" =>
    \A a, b \in HandleNames :
      Before(createLog, a, b) =>
        IF a = "debugger" /\ b = "device"
          THEN Before(destroyLog, a, b)
          ELSE Before(destroyLog, b, a)

C5_Witness ==
  /\ pc = "gone"
  /\ createLog = <<"instance", "debugger", "device">>
  /\ Len(destroyLog) = 3

C7_DisabledAddsNothing ==
  ~SHOULD_INCLUDE_VALIDATION_LAYERS =>
    /\ instance_create_info # <<>> =>
         /\ Count(instance_create_info[1].enabled_extension_names, DebugUtilsName) = 0
         /\ instance_create_info[1].enabled_layer_names = <<>>
         /\ instance_create_info[1].p_next = <<>>
    /\ device_create_info # <<>> =>
         /\ Count(device_create_info[1].enabled_extension_names, DebugUtilsName) = 0
         /\ device_create_info[1].enabled_layer_names = <<>>
    /\ debugger = <<>>

C7_Witness ==
  /\ ~SHOULD_INCLUDE_VALIDATION_LAYERS
  /\ instance_create_info # <<>>
  /\ Len(window_required[1]) = MaxWindowExts
  /\ instance_create_info[1].enabled_extension_names = window_required[1]
  /\ handles["instance"] = "live"

DiscreteWithGraphics(device) ==
  /\ device.device_type = "DISCRETE_GPU"
  /\ \E j \in 1..Len(device.queue_families) : "GRAPHICS" \in device.queue_families[j]

\* C9: selection returns the first device of the enumeration that is discrete
\* and has a graphics-capable queue family; if there is none, startup fails
\* with the 'no suitable device' error.
C9_FirstSuitableOrError ==
  physical_devices # <<>> =>
    LET devs == physical_devices[1]
        good == {i \in 1..Len(devs) : DiscreteWithGraphics(devs[i])}
    IN IF good = {}
         THEN /\ physical_device = <<>>
              /\ pc = "failed"
              /\ result = "Unable to find suitable physical device"
         ELSE /\ physical_device # <<>>
              /\ physical_device[1] \in good
              /\ \A i \in good : physical_device[1] <= i
              /\ pc # "failed" \/ result # "Unable to find suitable physical device"

C9_Witness ==
  /\ physical_devices # <<>>
  /\ Len(physical_devices[1]) = 2
  /\ physical_devices[1][1].device_type = "INTEGRATED_GPU"
  /\ DiscreteWithGraphics(physical_devices[1][2])
  /\ physical_device = <<2>>

GraphicsIndices(device) ==
  {i \in 0..(Len(device.queue_families) - 1) :
     "GRAPHICS" \in device.queue_families[i + 1]}

\* C11: find_queue_families returns the lowest index whose flags include
\* graphics (2 for graphics-capable families at {2, 5}) and None exactly
\* when no family has the graphics flag.
C11_LowestGraphicsIndex ==
  physical_devices # <<>> =>
    \A d \in 1..Len(examined) :
      LET hits == GraphicsIndices(physical_devices[1][d])
          found == examined[d].queue_family
      IN /\ found = <<>> <=> hits = {}
         /\ found # <<>> => found[1] \in hits /\ \A i \in hits : found[1] <= i

C11_Witness ==
  /\ pc = "found"
  /\ GraphicsIndices(physical_devices[1][1]) = {2, 5}
  /\ examined[1].queue_family = <<2>>

\* C12: whatever severity flags and message are delivered, the diagnostic
\* callback does not panic and returns the 'do not abort' value FALSE.
C12_CallbackNeverFails ==
  \A i \in 1..Len(calls) : calls[i].outcome = "FALSE"

StartupOrder ==
  <<"init_window", "init_vulkan", "debugger_new", "pick_physical_device",
    "create_logical_device", "get_device_queue", "constructed">>

\* C13: startup runs instance creation, messenger attach (only if diagnostics
\* are enabled), device selection, logical-device creation and queue
\* retrieval in this order; a step is entered only when the previous one
\* succeeded, and after a failed step nothing more is executed.
C13_StartupOrder ==
  [][ /\ pc \in {"failed", "panicked"} => UNCHANGED vars
      /\ \A k \in 1..6 :
           (pc = StartupOrder[k] /\ pc' # pc) =>
              pc' \in {StartupOrder[k + 1], "failed", "panicked"}
      /\ pc' # pc =>
           /\ pc' = "debugger_new" => handles'["instance"] = "live"
           /\ pc' = "pick_physical_device" =>
                /\ debugger' # <<>> <=> SHOULD_INCLUDE_VALIDATION_LAYERS
                /\ debugger' # <<>> => handles'["debugger"] = "live"
           /\ pc' = "create_logical_device" => physical_device' # <<>>
           /\ pc' = "get_device_queue" => handles'["device"] = "live"
           /\ pc' = "constructed" => queue' # <<>> /\ result' = "Ok"
           /\ pc' \in {"failed", "panicked"} =>
                <<handles, createLog, debugger, queue>>' =
                  <<handles, createLog, debugger, queue>>
      /\ IsPrefix(createLog',
                  IF SHOULD_INCLUDE_VALIDATION_LAYERS
                    THEN <<"instance", "debugger", "device">>
                    ELSE <<"instance", "device">>)
    ]_vars

C13_Witness ==
  /\ pc = "constructed"
  /\ createLog = <<"instance", "debugger", "device">>
  /\ queue # <<>>
  /\ result = "Ok"

\* C14: once the attach step is past, a messenger exists iff diagnostics are
\* enabled; the messenger descriptor is chained into instance creation iff
\* diagnostics are enabled; and every place that consults the flag (instance
\* extensions, instance layers, chained descriptor, attach, device layers)
\* saw the same value.
C14_MessengerIffEnabled ==
  LET enabled == SHOULD_INCLUDE_VALIDATION_LAYERS
  IN /\ pc \in {"pick_physical_device", "create_logical_device", "get_device_queue",
                "constructed", "run", "run_returned"} =>
          /\ debugger # <<>> <=> enabled
          /\ handles["debugger"] = "live" <=> enabled
     /\ instance_create_info # <<>> =>
          /\ instance_create_info[1].p_next # <<>> <=> enabled
          /\ instance_create_info[1].enabled_layer_names # <<>> <=> enabled
          /\ Len(instance_create_info[1].enabled_extension_names) =
               Len(window_required[1]) + (IF enabled THEN 1 ELSE 0)
     /\ device_create_info # <<>> =>
          (device_create_info[1].enabled_layer_names # <<>> <=> enabled)

C14_Witness ==
  /\ pc = "get_device_queue"
  /\ SHOULD_INCLUDE_VALIDATION_LAYERS
  /\ debugger # <<>>
  /\ handles["debugger"] = "live"
  /\ device_create_info[1].enabled_layer_names # <<>>

\* C15: the logical device is created with exactly one queue request, for one
\* queue of the lowest graphics-capable family of the chosen device, and the
\* queue is then retrieved from that same family at slot 0.
C15_SameFamilyIndex ==
  [][ /\ device_create_info' # <<>> =>
           LET requests == device_create_info'[1].queue_create_infos
               chosen == physical_devices'[1][physical_device'[1]]
           IN /\ Len(requests) = 1
              /\ requests[1].queue_count = 1
              /\ requests[1].queue_family_index \in GraphicsIndices(chosen)
              /\ \A i \in GraphicsIndices(chosen) : requests[1].queue_family_index <= i
      /\ (queue = <<>> /\ queue' # <<>>) =>
           /\ device_create_info # <<>>
           /\ handles["device"] = "live"
           /\ queue'[1].family = device_create_info[1].queue_create_infos[1].queue_family_index
           /\ queue'[1].slot = 0
      /\ queue # <<>> => queue' = queue
    ]_vars

C15_Witness ==
  /\ pc = "constructed"
  /\ queue = <<[family |-> 1, slot |-> 0]>>
  /\ handles["device"] = "live"

\* C16: the extension list given to instance creation is the window-required
\* list, unchanged and in its order, followed by the diagnostic extension
\* only when diagnostics are enabled; with diagnostics disabled the layer
\* list is empty.
C16_InstanceExtensionList ==
  instance_create_info # <<>> =>
    /\ instance_create_info[1].enabled_extension_names =
         window_required[1] \o
           (IF SHOULD_INCLUDE_VALIDATION_LAYERS THEN <<DebugUtilsName>> ELSE <<>>)
    /\ ~SHOULD_INCLUDE_VALIDATION_LAYERS =>
         instance_create_info[1].enabled_layer_names = <<>>

C16_Witness ==
  /\ ~SHOULD_INCLUDE_VALIDATION_LAYERS
  /\ window_required = <<(<<"VK_KHR_surface">>)>>
  /\ instance_create_info # <<>>
  /\ instance_create_info[1].enabled_extension_names = <<"VK_KHR_surface">>
  /\ instance_create_info[1].enabled_layer_names = <<>>
  /\ handles["instance"] = "live"

AllDestroyed ==
  \A h \in HandleNames : Occurs(createLog, h) => handles[h] = "destroyed"

\* C17: once startup has succeeded and a close-requested event is waiting in
\* the running loop, run() eventually returns and teardown eventually
\* completes with every created handle destroyed; run() returns only after
\* the closure chose Exit on a close-requested event.
C17_CloseLeadsToTeardown ==
  /\ (pc = "run" /\ Occurs(pending, "CloseRequested")) ~> (pc = "gone" /\ AllDestroyed)
  /\ [](pc \in {"run_returned", "drop", "gone"} =>
          control_flow = "Exit" /\ exits = 1)

C17_Witness ==
  /\ pc = "gone"
  /\ AllDestroyed
  /\ Len(createLog) = 3
  /\ posted = 1
  /\ handled = 1
  /\ pending = <<>>

\* C18: every failing startup step ends new() with a returned error value,
\* never with a panic, and a failed step is not run again.
C18_ErrorsAreReturned ==
  /\ pc # "panicked"
  /\ pc = "failed" => result \in {"Err(init_window)", "Err(create_instance)",
                                   "Err(create_debug_utils_messenger)",
                                   "Unable to find suitable physical device",
                                   "Err(create_device)"}

\* the record the sink should receive for one call
ExpectedLog(message_severity, message) ==
  IF "ERROR" \in message_severity THEN <<[level |-> "error", text |-> message.bytes]>>
  ELSE IF "WARNING" \in message_severity THEN <<[level |-> "warn", text |-> message.bytes]>>
  ELSE IF "INFO" \in message_severity THEN <<[level |-> "info", text |-> message.bytes]>>
  ELSE IF "VERBOSE" \in message_severity THEN <<[level |-> "debug", text |-> message.bytes]>>
  ELSE <<>>

RECURSIVE ExpectedSink(_)
ExpectedSink(cs) ==
  IF cs = <<>> THEN <<>>
  ELSE ExpectedLog(Head(cs).message_severity, Head(cs).message) \o ExpectedSink(Tail(cs))

\* C19: each call of the callback logs the message text exactly once, at the
\* level of the most severe bit set (error, warn, info, debug), and logs
\* nothing when no recognised bit is set.
C19_SeverityToLevel ==
  /\ \A i \in 1..Len(calls) :
       calls[i].logged = ExpectedLog(calls[i].message_severity, calls[i].message)
  /\ log = ExpectedSink(calls)

\* C20: whenever new() is at create_logical_device or at the queue retrieval
\* the chosen device has a graphics-capable family, neither unwrap of
\* find_queue_families panics, and both yield the index found at selection.
C20_UnwrapsCannotFail ==
  /\ [](/\ result # "panic(find_queue_families)"
        /\ pc \in {"create_logical_device", "get_device_queue"} =>
             /\ physical_device # <<>>
             /\ GraphicsIndices(physical_devices[1][physical_device[1]]) # {}
             /\ examined[physical_device[1]].queue_family # <<>>
        /\ device_create_info # <<>> =>
             <<device_create_info[1].queue_create_infos[1].queue_family_index>> =
               examined[physical_device[1]].queue_family)
  /\ [][(queue = <<>> /\ queue' # <<>>) =>
          <<queue'[1].family>> = examined[physical_device[1]].queue_family]_vars

C20_Witness ==
  /\ pc = "get_device_queue"
  /\ Len(examined) = 2
  /\ physical_device = <<2>>
  /\ examined[2].queue_family = <<1>>
  /\ device_create_info[1].queue_create_infos[1].queue_family_index = 1

====
